---- MODULE Spec2Model ----
(***************************************************************************)
(* Wingmark: a scoped web crawler on Cloudflare Workers.                   *)
(*                                                                         *)
(* The model covers the Browser durable object (src/lib/browser.ts, the    *)
(* first revision in the file), the queue consumer (src/index.ts), the     *)
(* HTTP handlers (src/http/index.ts), and the URL scope predicate          *)
(* (src/utils/url.ts and its normalising revision in src/http/index.ts).   *)
(*                                                                         *)
(* Strings are sequences of one-character strings.  The two characters     *)
(* "O" and "P" stand for the scheme-and-host prefixes "https://a.test"     *)
(* and "https://b.test"; they occur only at the head of a string.          *)
(***************************************************************************)
EXTENDS Integers, Sequences, FiniteSets, Bags, TLC

\* ------------------------------------------------------------------ bounds

\* Longest tail (after the scheme-and-host prefix) of a URL string given to
\* checkIsValidChildUrl.
MaxTail == 3

\* ------------------------------------------------------------------ strings

OriginTokens == {"O", "P"}
TailChars == {"/", "a", "#"}

startsWith(s, p) ==
  /\ Len(p) <= Len(s)
  /\ SubSeq(s, 1, Len(p)) = p

endsWith(s, c) == Len(s) > 0 /\ s[Len(s)] = c

\* String.prototype.slice(n) for 0 <= n
slice(s, n) == IF n >= Len(s) THEN << >> ELSE SubSeq(s, n + 1, Len(s))

\* s.replace(/\/$/, ""): drop one trailing slash
stripTrailingSlash(s) ==
  IF endsWith(s, "/") THEN SubSeq(s, 1, Len(s) - 1) ELSE s

\* index of the first occurrence of c in s, Len(s)+1 when there is none
RECURSIVE indexOfFrom(_, _, _)
indexOfFrom(s, c, i) ==
  IF i > Len(s) THEN Len(s) + 1
  ELSE IF s[i] = c THEN i
  ELSE indexOfFrom(s, c, i + 1)

indexOf(s, c) == indexOfFrom(s, c, 1)

\* index of the last occurrence of c in s, 0 when there is none
RECURSIVE lastIndexOfFrom(_, _, _)
lastIndexOfFrom(s, c, i) ==
  IF i < 1 THEN 0
  ELSE IF s[i] = c THEN i
  ELSE lastIndexOfFrom(s, c, i - 1)

lastIndexOf(s, c) == lastIndexOfFrom(s, c, Len(s))

\* length of the leading run of host characters of s
RECURSIVE hostRun(_, _)
hostRun(s, i) ==
  IF i > Len(s) \/ s[i] \in {"/", "#"} THEN i - 1 ELSE hostRun(s, i + 1)

\* ------------------------------------------------------------------ URL

\* new URL(s) succeeds only for an absolute URL string
isAbsolute(s) == Len(s) > 0 /\ s[1] \in OriginTokens

\* The part of a reference before its fragment, and its fragment ("#" included)
beforeHash(s) == SubSeq(s, 1, indexOf(s, "#") - 1)
fromHash(s) == slice(s, indexOf(s, "#") - 1)

\* A parsed URL.  frag is the raw fragment with its "#", kept by href;
\* the hash getter returns "" for a bare "#".
mkUrl(origin, path, frag) ==
  [ origin   |-> origin,
    pathname |-> IF path = << >> THEN <<"/">> ELSE path,
    hash     |-> IF Len(frag) <= 1 THEN << >> ELSE frag,
    href     |-> origin \o (IF path = << >> THEN <<"/">> ELSE path) \o frag ]

\* new URL(s) for an absolute s: characters after the prefix and before the
\* first "/" or "#" extend the host name.
parseUrl(s) ==
  LET rest == Tail(s)
      h    == hostRun(rest, 1)
      after == slice(rest, h)
  IN  mkUrl(<<s[1]>> \o SubSeq(rest, 1, h), beforeHash(after), fromHash(after))

\* new URL(ref, base.href): an absolute ref stands alone; otherwise the
\* reference is resolved against the base (RFC 3986 5.2, no dot segments and
\* no query in this alphabet).
resolveUrl(ref, base) ==
  IF isAbsolute(ref) THEN parseUrl(ref)
  ELSE IF ref = << >> THEN mkUrl(base.origin, base.pathname, << >>)
  ELSE IF ref[1] = "#" THEN mkUrl(base.origin, base.pathname, ref)
  ELSE IF ref[1] = "/" THEN mkUrl(base.origin, beforeHash(ref), fromHash(ref))
  ELSE mkUrl(base.origin,
             SubSeq(base.pathname, 1, lastIndexOf(base.pathname, "/"))
               \o beforeHash(ref),
             fromHash(ref))

\* src/utils/url.ts: both constructors throw on a relative string
checkIsValidChildUrlThrows(parent, child) ==
  ~isAbsolute(parent) \/ ~isAbsolute(child)

\* src/utils/url.ts: the returned conjunction
checkIsValidChildUrl(parent, child) ==
  LET parentUrl == parseUrl(parent)
      childUrl  == parseUrl(child)
  IN  /\ startsWith(child, parent)
      /\ ~startsWith(slice(child, Len(parent)), <<"#">>)
      /\ ~endsWith(child, "/")
      /\ startsWith(childUrl.pathname, parentUrl.pathname)
      /\ childUrl.pathname # parentUrl.pathname

\* The revision with normalisation: relative children are resolved against
\* the parent, an unparsable parent makes the result false.
checkIsValidChildUrlNormalized(parent, child) ==
  IF ~isAbsolute(parent) THEN FALSE
  ELSE
    LET parentUrl == parseUrl(parent)
        childUrl  == resolveUrl(child, parentUrl)
        normalizedParent == stripTrailingSlash(parentUrl.href)
        normalizedChild  == stripTrailingSlash(childUrl.href)
        parentPath == stripTrailingSlash(parentUrl.pathname)
        childPath  == stripTrailingSlash(childUrl.pathname)
    IN  /\ startsWith(normalizedChild, normalizedParent)
        /\ startsWith(childPath, parentPath)
        /\ childPath # parentPath
        /\ childUrl.hash = << >>

\* ------------------------------------------------------------------ system

\* Bounds of the crawl model
MaxDepth == 1          \* largest depth a /crawl request asks for
MaxSeedLimit == 1      \* largest limit a /crawl request asks for
MaxLimit == 2          \* largest limit of a task whose page is scanned alone
MaxAnchors == 4        \* most anchors on a page that is scanned alone
MaxBatch == 2          \* most messages in one queue batch
MaxFailures == 1       \* invocations that end with an error
MaxCrawlRequests == 1  \* /crawl requests received
MaxScrapes == 2        \* /scrape requests received
MaxSessions == 2       \* sessions puppeteer.sessions lists

\* Program constants
KEEP_BROWSER_ALIVE_IN_SECONDS == 60
MAX_RETRIES == 3
TEN_SECONDS == 10

VARIABLES
  taskQueue,           \* CRAWLER queue: bag of messages [body]
  callbackQueue,       \* CALLBACKS queue: bag of CallbackTask
  cache,               \* CACHE: "scrape:<url>" -> artifact or NoEntry
  browser,             \* this.browser: "none", "open" (connected), "closed"
  keptAliveInSeconds,  \* this.keptAliveInSeconds
  alarmSet,            \* storage.getAlarm() != null
  pc,                  \* position of the queue handler (Q) and of /scrape (H)
  retries,             \* ensureBrowser's local counter, per invocation
  waits,               \* ensureBrowser: the backoff delays (ms) started so far
  sessions,            \* closeBrowserSessions: sessions still to be closed
  handle,              \* the renderer an invocation holds: "none", "live" (it is
                       \* this.browser), "orphan" (replaced in this.browser), "closed"
  err,                 \* the error an invocation is unwinding with
  fx,                  \* what the current actor invocation has done so far
  md,                  \* the invocation's markdown local
  html,                \* the invocation's html local
  queue,               \* batch.queue, the name of the queue the batch is from
  batch,               \* messages of the batch being handled
  bi,                  \* index of the message being processed
  acked,               \* indices of the batch acknowledged so far
  hrefs,               \* extractLinks: the anchors read from the page
  links,               \* extractLinks: the links kept
  scanned,             \* extractLinks: number of anchors examined
  handlerErr,          \* how the last queue handler invocation ended
  req,                 \* the /scrape request being served
  scrapes,             \* number of /scrape requests answered
  lastResp,            \* the response to the latest of them
  crawlReqs,           \* number of /crawl requests accepted
  lastCrawl,           \* the latest of them, as validated, and its response status
  sends,               \* CRAWLER.send calls nobody awaits: bag of [from, body, state]
  failures,            \* number of invocations that ended with an error
  urlCase,             \* a (parent, child) pair and the scope predicate's answer
  posted               \* the POST requests made to callback URLs: bag of
                       \* [callback, body]

actorVars == <<browser, keptAliveInSeconds, alarmSet>>
storeVars == <<taskQueue, callbackQueue, cache>>
procVars == <<pc, retries, waits, sessions, handle, err, fx, md, html>>
qVars == <<queue, batch, bi, acked, hrefs, links, scanned, handlerErr>>
hVars == <<req, scrapes, lastResp>>
vars == <<storeVars, actorVars, procVars, qVars, hVars, crawlReqs, lastCrawl, sends, failures, urlCase, posted>>

Procs == {"Q", "H"}

\* URLs of the modelled site.  Root is the seed as the caller types it;
\* the others are a.href values, which the renderer returns normalised.
Root == <<"O">>                         \* https://a.test
HrefSelf == <<"O", "/">>                \* https://a.test/
HrefChild == <<"O", "/", "a">>          \* https://a.test/a
HrefFragment == <<"O", "/", "#", "a">>  \* https://a.test/#a
HrefOtherHost == <<"O", "a", "/">>      \* https://a.testa/
HrefCrossOrigin == <<"P", "/">>         \* https://b.test/
HrefDeep == <<"O", "/", "a", "/", "a">> \* https://a.test/a/a

Hrefs == {HrefSelf, HrefChild, HrefFragment, HrefOtherHost, HrefCrossOrigin,
          HrefDeep}
SeedUrls == {Root}
ScrapeUrls == {Root, HrefChild}
Urls == SeedUrls \cup Hrefs

\* Every page of at most MaxAnchors anchors
AnchorLists == UNION {[1..n -> Hrefs] : n \in 0..MaxAnchors}

\* The pages the crawled site serves: any of them may answer any fetch
SitePages == { << >>, <<HrefChild>>, <<HrefSelf, HrefChild>>,
               <<HrefCrossOrigin, HrefChild, HrefChild>> }

Callback == "https://cb.test/hook"

\* Rendered documents: "blank" has no title and no content, so Readability
\* finds no article in it and the detailed conversion of it is the empty string
Htmls == {"article", "blank"}

\* CACHE.get resolves to null for a missing key; a stored value is a string
NoEntry == <<"none">>
EmptyString == << >>

\* the truthiness test `if (markdown)` / `if (cached)`: null and "" are falsy
truthy(value) == value # NoEntry /\ value # EmptyString

\* the /scrape handler's answer when Browser.scrape returns a falsy value
NoResponseFromScrape == <<"Error: No response from scrape">>
NoTask == [currentUrl |-> << >>, originalUrl |-> << >>, currentDepth |-> 0,
           maxDepth |-> 0, limit |-> 0, callback |-> "", detailed |-> FALSE]
NoReq == [url |-> << >>, cacheEnabled |-> FALSE, detailed |-> FALSE]
NoResp == [url |-> << >>, cacheEnabled |-> FALSE, status |-> 0, body |-> NoEntry,
           fx |-> {}]
NoCrawl == [url |-> << >>, depth |-> 0, limit |-> 0, callback |-> "",
            detailed |-> FALSE, status |-> 0]
NoCase == [parent |-> << >>, child |-> << >>, done |-> FALSE, threw |-> FALSE,
           value |-> FALSE, normalized |-> FALSE]

\* ------------------------------------------------------------------ helpers

Range(f) == {f[i] : i \in DOMAIN f}

\* Browser.extractLinks: scan the anchors in order, keep the ones that start
\* with url in a Set (insertion-ordered, no duplicates), break at the cap.
RECURSIVE scanHrefs(_, _, _, _, _)
scanHrefs(hs, url, limit, i, kept) ==
  IF i > Len(hs) THEN [links |-> kept, scanned |-> Len(hs)]
  ELSE IF ~startsWith(hs[i], url) THEN scanHrefs(hs, url, limit, i + 1, kept)
  ELSE LET added == IF hs[i] \in Range(kept) THEN kept ELSE Append(kept, hs[i])
       IN  IF Len(added) >= limit
             THEN [links |-> added, scanned |-> i]
             ELSE scanHrefs(hs, url, limit, i + 1, added)

\* A scan that keeps every matching anchor, whatever the limit
extractLinksUncapped(hs, url, limit) == scanHrefs(hs, url, Len(hs) + 1, 1, << >>)
extractLinks(hs, url, limit) == scanHrefs(hs, url, limit, 1, << >>)

\* The depth check of the earlier revision of Browser.crawl
depthReachedEarly(currentDepth, maxDepth) == currentDepth >= maxDepth
\* A depth check that lets one more level through
depthReachedLate(currentDepth, maxDepth) == currentDepth > maxDepth + 1
\* Browser.crawl: the depth check
depthReached(currentDepth, maxDepth) == currentDepth > maxDepth

\* A child that keeps the depth of its parent
childTaskSameDepth(t, link) == [t EXCEPT !.currentUrl = link]
\* Browser.crawl: the message sent for one link
childTask(t, link) ==
  [ currentUrl   |-> link,
    originalUrl  |-> t.originalUrl,
    currentDepth |-> t.currentDepth + 1,
    maxDepth     |-> t.maxDepth,
    limit        |-> t.limit,
    callback     |-> t.callback,
    detailed     |-> t.detailed ]

\* POST /crawl: a seed that starts one level down
seedTaskBelowRoot(url, depth, limit, callback, detailed) ==
  [ currentUrl   |-> url,
    originalUrl  |-> url,
    currentDepth |-> 1,
    maxDepth     |-> depth,
    limit        |-> limit,
    callback     |-> callback,
    detailed     |-> detailed ]
\* POST /crawl: the seed message
seedTask(url, depth, limit, callback, detailed) ==
  [ currentUrl   |-> url,
    originalUrl  |-> url,
    currentDepth |-> 0,
    maxDepth     |-> depth,
    limit        |-> limit,
    callback     |-> callback,
    detailed     |-> detailed ]

\* Browser.getMarkdown: getSummaryMarkdown throws ReadabilityError when
\* Readability finds no content, and otherwise starts its result with a
\* title line; getDetailedMarkdown converts any document and adds a title
\* line only when the document has a title.
getMarkdownThrows(h, detailed) == ~detailed /\ h = "blank"
getMarkdown(h, detailed) ==
  IF ~detailed THEN <<"summary", h>>
  ELSE IF h = "blank" THEN EmptyString
  ELSE <<"detailed", h>>

\* POST /crawl: a validated request body, answered 202 Accepted
accepted(url, depth, limit, callback, detailed) ==
  [ url |-> url, depth |-> depth, limit |-> limit, callback |-> callback,
    detailed |-> detailed, status |-> 202 ]

\* The accepted request that crawl task t descends from
requestOf(t) ==
  accepted(t.originalUrl, t.maxDepth, t.limit, t.callback, t.detailed)

\* A new queue message, as the queue hands it to a consumer
message(body) == [body |-> body]

\* The messages of batch b that were not acknowledged, as the queue takes
\* them back after a failed handler invocation
RECURSIVE retried(_, _, _)
retried(b, done, i) ==
  IF i > Len(b) THEN EmptyBag
  ELSE LET rest == retried(b, done, i + 1)
       IN  IF i \in done THEN rest ELSE rest (+) SetToBag({b[i]})

\* Browser.crawl: the loop over the links, one CRAWLER.send for each
RECURSIVE sendLinks(_, _, _)
sendLinks(t, ls, i) ==
  IF i > Len(ls) THEN EmptyBag
  ELSE SetToBag({message(childTask(t, ls[i]))}) (+) sendLinks(t, ls, i + 1)

\* The queues of wrangler.toml, and one the worker has no branch for
CrawlerQueue == "wingmark-crawler"
CallbacksQueue == "wingmark-callbacks"
OtherQueue == "wingmark-other"
NoQueue == ""

\* The queue handler's branch for a batch of the named queue
consumerOf(name) ==
  IF name = CrawlerQueue THEN "crawler"
  ELSE IF name = CallbacksQueue THEN "callbacks"
  ELSE "unknown"

\* the task the queue handler is processing
task == IF bi \in 1..Len(batch) THEN batch[bi].body ELSE NoTask

\* the URL and mode of the invocation of p
urlOf(p) == IF p = "Q" THEN task.currentUrl ELSE req.url
detailedOf(p) == IF p = "Q" THEN task.detailed ELSE req.detailed

\* ------------------------------------------------------------------ Init

InitSystem ==
  /\ taskQueue = EmptyBag
  /\ callbackQueue = EmptyBag
  /\ cache = [u \in Urls |-> NoEntry]
  /\ browser = "none"
  /\ keptAliveInSeconds = 0
  /\ alarmSet = FALSE
  /\ pc = [p \in Procs |-> "idle"]
  /\ retries = [p \in Procs |-> 0]
  /\ waits = [p \in Procs |-> << >>]
  /\ sessions = [p \in Procs |-> 0]
  /\ handle = [p \in Procs |-> "none"]
  /\ err = [p \in Procs |-> "none"]
  /\ fx = [p \in Procs |-> {}]
  /\ md = [p \in Procs |-> NoEntry]
  /\ html = [p \in Procs |-> "none"]
  /\ queue = NoQueue
  /\ batch = << >>
  /\ bi = 0
  /\ acked = {}
  /\ hrefs = << >>
  /\ links = << >>
  /\ scanned = 0
  /\ handlerErr = "none"
  /\ req = NoReq
  /\ scrapes = 0
  /\ lastResp = NoResp
  /\ crawlReqs = 0
  /\ lastCrawl = NoCrawl
  /\ sends = EmptyBag
  /\ failures = 0
  /\ posted = EmptyBag

Init == InitSystem /\ urlCase = NoCase

\* ------------------------------------------------------------------ steps

\* The delay of an earlier revision: no wait after the first failure
backoffDelayEarlier(retries_) == 1000 * retries_
\* Browser.ensureBrowser: the delay of the backoff timer, in milliseconds
backoffDelay(retries_) == 1000 * (retries_ + 1)

\* Positions inside Browser.ensureBrowser's retry loop
Ensuring == {"launch", "cleanup", "closing", "backoff"}

\* The locals of invocation p after a step.  The backoff timer is started
\* on reaching "backoff"; the loop over the sessions is at "closing", where
\* the step itself says how many sessions are left.
LocalsWith(p, at, r, e, f, m, h, hd) ==
  /\ pc' = [pc EXCEPT ![p] = at]
  /\ handle' = hd
  /\ retries' = [retries EXCEPT ![p] = r]
  /\ waits' = [waits EXCEPT ![p] =
                 IF at \notin Ensuring THEN << >>
                 ELSE IF at = "backoff" THEN Append(@, backoffDelay(retries[p]))
                 ELSE @]
  /\ at # "closing" => sessions' = [sessions EXCEPT ![p] = 0]
  /\ err' = [err EXCEPT ![p] = e]
  /\ fx' = [fx EXCEPT ![p] = f]
  /\ md' = [md EXCEPT ![p] = m]
  /\ html' = [html EXCEPT ![p] = h]

\* Positions at which an invocation holds no renderer
Unattached == {"idle", "dispatch", "post", "posted", "entry", "ack", "cacheCheck",
               "launch", "cleanup", "closing", "backoff"}

\* The same, the invocation keeping the renderer it holds, if any
Locals(p, at, r, e, f, m, h) ==
  LocalsWith(p, at, r, e, f, m, h,
             [handle EXCEPT ![p] = IF at \in Unattached THEN "none" ELSE @])

\* A renderer handle that never reports itself connected
isConnectedNever(b) == FALSE
\* this.browser?.isConnected()
isConnected(b) == b = "open"

\* ensureBrowser returns this.browser to p
Attached(p) == [handle EXCEPT ![p] = "live"]

\* puppeteer.launch gave p a new renderer, now this.browser: a renderer that
\* was this.browser and is still open stays with its holder only
Launched(p) ==
  [q \in Procs |-> IF q = p THEN "live"
                   ELSE IF handle[q] = "live" THEN "orphan"
                   ELSE handle[q]]

\* p moves to `at`, having done `did`
Goes(p, at, did) ==
  Locals(p, at, retries[p], err[p], fx[p] \cup did, md[p], html[p])

\* A catch block that drops the error: p goes through its finally block and on
UnwindsSwallowed(p, e, did) ==
  Locals(p, "finally", retries[p], "none", fx[p] \cup did, md[p], html[p])

\* p starts unwinding through its finally block with error e
Unwinds(p, e, did) ==
  Locals(p, "finally", retries[p], e, fx[p] \cup did, md[p], html[p])

\* The queue handler's invocation ends: its locals are dropped
QueueHandlerEnds(e) ==
  /\ Locals("Q", "idle", 0, "none", {}, NoEntry, "none")
  /\ queue' = NoQueue
  /\ batch' = << >>
  /\ bi' = 0
  /\ acked' = {}
  /\ hrefs' = << >>
  /\ links' = << >>
  /\ scanned' = 0
  /\ handlerErr' = e

\* A failure that takes back the children the failed task has sent
QueueHandlerThrowsRollback(e) ==
  /\ QueueHandlerEnds(e)
  /\ LET sent == {m \in BagToSet(taskQueue) :
                    /\ m.body.originalUrl = task.originalUrl
                    /\ m.body.currentDepth = task.currentDepth + 1}
         kept == [m \in BagToSet(taskQueue) \ sent |-> taskQueue[m]]
     IN  taskQueue' = kept (+) retried(batch, acked, 1)

\* A handler that acknowledges the message whose task has failed
QueueHandlerThrowsAcked(e) ==
  /\ QueueHandlerEnds(e)
  /\ taskQueue' = taskQueue (+) retried(batch, acked \cup {bi}, 1)

\* An error leaves Browser.crawl and the queue handler: the queue takes the
\* unacknowledged messages of the batch back
QueueHandlerThrows(e) ==
  /\ QueueHandlerEnds(e)
  /\ taskQueue' = taskQueue (+) retried(batch, acked, 1)

\* The /scrape handler responds
Responds(status, body) ==
  /\ lastResp' = [url |-> req.url, cacheEnabled |-> req.cacheEnabled,
                  status |-> status, body |-> body, fx |-> fx["H"]]
  /\ scrapes' = scrapes + 1
  /\ req' = NoReq
  /\ Locals("H", "idle", 0, "none", {}, NoEntry, "none")

\* An error leaves invocation p
Throws(p, e) ==
  /\ failures' = IF failures < MaxFailures THEN failures + 1 ELSE failures
  /\ IF p = "Q"
       THEN QueueHandlerThrows(e) /\ UNCHANGED <<callbackQueue, cache, hVars>>
       ELSE Responds(500, NoEntry) /\ UNCHANGED <<storeVars, qVars>>

\* The model lets an operation fail while fewer than MaxFailures invocations
\* have failed; an operation on a renderer that was closed always fails
MayFail(p) == failures < MaxFailures \/ handle[p] = "closed"

\* p's renderer is still open
Usable(p) == handle[p] \in {"live", "orphan"}

\* POST /crawl (src/http/index.ts): validate, send the seed, answer 202
PostCrawl ==
  /\ crawlReqs < MaxCrawlRequests
  /\ \E url \in SeedUrls, depth \in 1..MaxDepth, limit \in 1..MaxSeedLimit,
        detailed \in BOOLEAN :
       /\ taskQueue' = taskQueue (+)
            SetToBag({message(seedTask(url, depth, limit, Callback, detailed))})
       /\ lastCrawl' = accepted(url, depth, limit, Callback, detailed)
  /\ crawlReqs' = crawlReqs + 1
  /\ UNCHANGED <<callbackQueue, cache, actorVars, procVars, qVars, hVars, failures,
                 sends, urlCase, posted>>

\* ------------------------------------------------------------------ /scrape

\* Browser.scrape is called: ensureBrowser returns the connected handle at
\* once, or starts launching; after it returns, ensureKeepAlive and newPage
ScrapeStarts ==
  IF isConnected(browser)
    THEN /\ LocalsWith("H", "newPage", 0, "none", {"keepAlive"}, NoEntry, "none",
                        Attached("H"))
         /\ keptAliveInSeconds' = 0
    ELSE /\ Locals("H", "launch", 0, "none", {}, NoEntry, "none")
         /\ UNCHANGED keptAliveInSeconds

\* POST /scrape arrives: with the cache enabled the handler reads the cache
\* first, otherwise it calls the actor
PostScrape ==
  /\ pc["H"] = "idle"
  /\ scrapes < MaxScrapes
  /\ \E url \in ScrapeUrls, cacheEnabled \in BOOLEAN, detailed \in BOOLEAN :
       /\ req' = [url |-> url, cacheEnabled |-> cacheEnabled, detailed |-> detailed]
       /\ IF cacheEnabled
            THEN /\ Locals("H", "cacheCheck", 0, "none", {}, NoEntry, "none")
                 /\ UNCHANGED keptAliveInSeconds
            ELSE ScrapeStarts
  /\ UNCHANGED <<storeVars, browser, alarmSet, qVars, scrapes, lastResp, crawlReqs, lastCrawl, sends, failures, urlCase, posted>>

\* POST /scrape, CACHE.get resolves: a hit is the response
ScrapeCacheCheck ==
  /\ pc["H"] = "cacheCheck"
  /\ IF truthy(cache[req.url])
       THEN /\ Responds(200, cache[req.url])
            /\ UNCHANGED keptAliveInSeconds
       ELSE /\ ScrapeStarts
            /\ UNCHANGED <<req, scrapes, lastResp>>
  /\ UNCHANGED <<storeVars, browser, alarmSet, qVars, crawlReqs, lastCrawl, sends, failures, urlCase, posted>>

\* ------------------------------------------------------------------ queue

\* The queue hands a batch of the crawler queue to the consumer
QueueDeliver ==
  /\ pc["Q"] = "idle"
  /\ consumerOf(CrawlerQueue) = "crawler"
  /\ queue' = CrawlerQueue
  /\ \E n \in 1..MaxBatch :
       \E b \in [1..n -> BagToSet(taskQueue)] :
         /\ retried(b, {}, 1) \sqsubseteq taskQueue
         /\ batch' = b
         /\ taskQueue' = taskQueue (-) retried(b, {}, 1)
  /\ bi' = 1
  /\ acked' = {}
  /\ handlerErr' = "none"
  /\ Locals("Q", "entry", 0, "none", {}, NoEntry, "none")
  /\ UNCHANGED <<callbackQueue, cache, actorVars, hrefs, links, scanned, hVars,
                 crawlReqs, lastCrawl, sends, failures, urlCase, posted>>

\* The runtime invokes the queue handler with a batch of a queue the worker
\* has no branch for.  That queue is not part of the model: its messages
\* come from outside and go back outside.
QueueDeliverOther ==
  /\ pc["Q"] = "idle"
  /\ queue' = OtherQueue
  /\ \E n \in 1..MaxBatch : batch' = [i \in 1..n |-> message(NoTask)]
  /\ bi' = 1
  /\ acked' = {}
  /\ handlerErr' = "none"
  /\ Locals("Q", "dispatch", 0, "none", {}, NoEntry, "none")
  /\ UNCHANGED <<storeVars, actorVars, hrefs, links, scanned, hVars, crawlReqs, lastCrawl, sends,
                 failures, urlCase, posted>>

\* A handler that returns when it knows no branch for the batch
UnknownQueueReturns ==
  /\ pc["Q"] = "dispatch"
  /\ consumerOf(queue) = "unknown"
  /\ QueueHandlerEnds("none")
  /\ UNCHANGED <<storeVars, actorVars, hVars, crawlReqs, lastCrawl, sends, failures, urlCase, posted>>

\* The queue handler: neither branch matches batch.queue, the handler throws
UnknownQueue ==
  /\ pc["Q"] = "dispatch"
  /\ consumerOf(queue) = "unknown"
  /\ QueueHandlerEnds("UnknownQueueError")
  /\ UNCHANGED <<storeVars, actorVars, hVars, crawlReqs, lastCrawl, sends, failures, urlCase, posted>>

\* ------------------------------------------------------------------ callbacks

\* The value of a property the object does not have
Undefined == <<"undefined">>

\* body.markdown, as the callbacks branch of the queue handler reads it
markdownOf(body) == IF "markdown" \in DOMAIN body THEN body.markdown ELSE Undefined

\* The bodies of the messages of batch b that were not acknowledged
RECURSIVE retriedBodies(_, _, _)
retriedBodies(b, done, i) ==
  IF i > Len(b) THEN EmptyBag
  ELSE LET rest == retriedBodies(b, done, i + 1)
       IN  IF i \in done THEN rest ELSE rest (+) SetToBag({b[i].body})

\* The queue hands a batch of the callbacks queue to the consumer
QueueDeliverCallbacks ==
  /\ pc["Q"] = "idle"
  /\ consumerOf(CallbacksQueue) = "callbacks"
  /\ queue' = CallbacksQueue
  /\ \E n \in 1..MaxBatch :
       \E b \in [1..n -> BagToSet(callbackQueue)] :
         /\ retried(b, {}, 1) \sqsubseteq callbackQueue
         /\ batch' = [i \in 1..n |-> message(b[i])]
         /\ callbackQueue' = callbackQueue (-) retried(b, {}, 1)
  /\ bi' = 1
  /\ acked' = {}
  /\ handlerErr' = "none"
  /\ Locals("Q", "post", 0, "none", {}, NoEntry, "none")
  /\ UNCHANGED <<taskQueue, cache, actorVars, hrefs, links, scanned, hVars,
                 crawlReqs, lastCrawl, sends, failures, urlCase, posted>>

\* The request ky.post makes for the message being processed
postOf(body) == [callback |-> body.callback, body |-> markdownOf(body)]

\* The callbacks branch: ky.post resolves; message.ack() is called
CallbackPostOk ==
  /\ pc["Q"] = "post"
  /\ posted' = posted (+) SetToBag({postOf(batch[bi].body)})
  /\ Goes("Q", "posted", {"post"})
  /\ UNCHANGED <<storeVars, actorVars, qVars, hVars, crawlReqs, lastCrawl, sends, failures, urlCase>>

\* The callbacks branch: ky.post rejects (an error response, or no response
\* at all) and the error leaves the handler; the queue takes the
\* unacknowledged messages back
CallbackPostFail ==
  /\ pc["Q"] = "post"
  /\ failures < MaxFailures
  /\ failures' = failures + 1
  /\ posted' = posted (+) SetToBag({postOf(batch[bi].body)})
  /\ QueueHandlerEnds("HTTPError")
  /\ callbackQueue' = callbackQueue (+) retriedBodies(batch, acked, 1)
  /\ UNCHANGED <<taskQueue, cache, actorVars, hVars, crawlReqs, lastCrawl, sends, urlCase>>

\* The callbacks branch: message.ack(), then the next message or return
CallbackAck ==
  /\ pc["Q"] = "posted"
  /\ IF bi < Len(batch)
       THEN /\ acked' = acked \cup {bi}
            /\ bi' = bi + 1
            /\ Locals("Q", "post", 0, "none", {}, NoEntry, "none")
            /\ UNCHANGED <<queue, batch, hrefs, links, scanned, handlerErr>>
       ELSE QueueHandlerEnds("none")
  /\ UNCHANGED <<storeVars, actorVars, hVars, crawlReqs, lastCrawl, sends, failures, urlCase, posted>>

\* ------------------------------------------------------------------ crawl

\* Browser.crawl is called with the message's body: the depth check, then
\* ensureKeepAlive and ensureBrowser
CrawlEntry ==
  /\ pc["Q"] = "entry"
  /\ IF depthReached(task.currentDepth, task.maxDepth)
       THEN /\ Locals("Q", "ack", 0, "none", {}, NoEntry, "none")
            /\ UNCHANGED keptAliveInSeconds
       ELSE /\ keptAliveInSeconds' = 0
            /\ IF isConnected(browser)
                 THEN LocalsWith("Q", "newPage", 0, "none", {"keepAlive"}, NoEntry,
                                 "none", Attached("Q"))
                 ELSE Locals("Q", "launch", 0, "none", {"keepAlive"}, NoEntry, "none")
  /\ UNCHANGED <<storeVars, browser, alarmSet, qVars, hVars, crawlReqs, lastCrawl, sends, failures, urlCase, posted>>

\* message.ack(), then the next message of the batch or the handler's return
Ack ==
  /\ pc["Q"] = "ack"
  /\ IF bi < Len(batch)
       THEN /\ acked' = acked \cup {bi}
            /\ bi' = bi + 1
            /\ Locals("Q", "entry", 0, "none", {}, NoEntry, "none")
            /\ UNCHANGED <<queue, batch, hrefs, links, scanned, handlerErr>>
       ELSE QueueHandlerEnds("none")
  /\ UNCHANGED <<storeVars, actorVars, hVars, crawlReqs, lastCrawl, sends, failures, urlCase, posted>>

\* ------------------------------------------------------------------ lib/queues

\* queueHandler of lib/queues.ts, crawler branch: message.ack(), then the
\* next message.  The branch does not return: after the last message control
\* passes the callbacks test and reaches the throw at the end of the handler,
\* with every message of the batch acknowledged.
QueueHandlerCrawlerAck ==
  /\ pc["Q"] = "ack"
  /\ IF bi < Len(batch)
       THEN /\ acked' = acked \cup {bi}
            /\ bi' = bi + 1
            /\ Locals("Q", "entry", 0, "none", {}, NoEntry, "none")
            /\ UNCHANGED <<queue, batch, hrefs, links, scanned, handlerErr>>
            /\ UNCHANGED taskQueue
       ELSE /\ QueueHandlerEnds("UnknownQueueError")
            /\ taskQueue' = taskQueue (+) retried(batch, acked \cup {bi}, 1)
  /\ UNCHANGED <<callbackQueue, cache, actorVars, hVars, crawlReqs, lastCrawl, sends, failures,
                 urlCase, posted>>

\* queueHandler of lib/queues.ts, callbacks branch: the same shape
QueueHandlerCallbacksAck ==
  /\ pc["Q"] = "posted"
  /\ IF bi < Len(batch)
       THEN /\ acked' = acked \cup {bi}
            /\ bi' = bi + 1
            /\ Locals("Q", "post", 0, "none", {}, NoEntry, "none")
            /\ UNCHANGED <<queue, batch, hrefs, links, scanned, handlerErr>>
            /\ UNCHANGED callbackQueue
       ELSE /\ QueueHandlerEnds("UnknownQueueError")
            /\ callbackQueue' = callbackQueue (+) retriedBodies(batch, acked \cup {bi}, 1)
  /\ UNCHANGED <<taskQueue, cache, actorVars, hVars, crawlReqs, lastCrawl, sends, failures,
                 urlCase, posted>>

\* ------------------------------------------------------------------ actor

\* Browser.ensureBrowser: puppeteer.launch resolves; the caller goes on
\* (scrape resets the idle counter after ensureBrowser, crawl did before)
LaunchOk(p) ==
  /\ pc[p] = "launch"
  /\ browser' = "open"
  /\ keptAliveInSeconds' = IF p = "H" THEN 0 ELSE keptAliveInSeconds
  /\ LocalsWith(p, "newPage", retries[p], err[p],
                fx[p] \cup (IF p = "H" THEN {"launch", "keepAlive"} ELSE {"launch"}),
                md[p], html[p], Launched(p))
  /\ UNCHANGED <<storeVars, alarmSet, qVars, hVars, crawlReqs, lastCrawl, sends, failures, urlCase, posted>>

\* Browser.ensureBrowser: puppeteer.launch rejects; closeBrowserSessions is called
LaunchFail(p) ==
  /\ pc[p] = "launch"
  /\ retries[p] + 1 < MAX_RETRIES \/ failures < MaxFailures
  /\ Goes(p, "cleanup", {})
  /\ UNCHANGED <<storeVars, actorVars, qVars, hVars, crawlReqs, lastCrawl, sends, failures, urlCase, posted>>

\* Browser.closeBrowserSessions: puppeteer.sessions resolves with the list
\* of active sessions
SessionsOk(p) ==
  /\ pc[p] = "cleanup"
  /\ Goes(p, "closing", {"cleanup"})
  /\ \E n \in 0..MaxSessions : sessions' = [sessions EXCEPT ![p] = n]
  /\ UNCHANGED <<storeVars, actorVars, qVars, hVars, crawlReqs, lastCrawl, sends, failures, urlCase, posted>>

\* Browser.closeBrowserSessions: puppeteer.sessions rejects; the error is
\* caught and the list stays empty
SessionsFail(p) ==
  /\ pc[p] = "cleanup"
  /\ Goes(p, "closing", {"cleanup", "sessionError"})
  /\ sessions' = [sessions EXCEPT ![p] = 0]
  /\ UNCHANGED <<storeVars, actorVars, qVars, hVars, crawlReqs, lastCrawl, sends, failures, urlCase, posted>>

\* Browser.closeBrowserSessions: connect and close succeed for the next
\* session.  The session is one nobody holds, or the renderer another
\* invocation is using.
SessionCloseOk(p) ==
  /\ pc[p] = "closing"
  /\ sessions[p] > 0
  /\ sessions' = [sessions EXCEPT ![p] = @ - 1]
  /\ \/ /\ Goes(p, "closing", {})
        /\ UNCHANGED browser
     \/ \E q \in Procs \ {p} :
          /\ Usable(q)
          /\ failures < MaxFailures
          /\ browser' = IF handle[q] = "live" THEN "closed" ELSE browser
          /\ LocalsWith(p, "closing", retries[p], err[p], fx[p], md[p], html[p],
                        [handle EXCEPT ![q] = "closed"])
  /\ UNCHANGED <<storeVars, keptAliveInSeconds, alarmSet, qVars, hVars, crawlReqs, lastCrawl, sends,
                 failures, urlCase, posted>>

\* A rejection inside the loop that leaves closeBrowserSessions
SessionCloseFailPropagates(p) ==
  /\ pc[p] = "closing"
  /\ sessions[p] > 0
  /\ Throws(p, "SessionError")
  /\ UNCHANGED <<actorVars, crawlReqs, lastCrawl, sends, urlCase, posted>>

\* Browser.closeBrowserSessions: connect or close rejects for the next
\* session; the error is caught and the loop goes on
SessionCloseFail(p) ==
  /\ pc[p] = "closing"
  /\ sessions[p] > 0
  /\ sessions' = [sessions EXCEPT ![p] = @ - 1]
  /\ Goes(p, "closing", {"sessionError"})
  /\ UNCHANGED <<storeVars, actorVars, qVars, hVars, crawlReqs, lastCrawl, sends, failures, urlCase, posted>>

\* Browser.closeBrowserSessions returns; the backoff timer is started
CloseBrowserSessions(p) ==
  /\ pc[p] = "closing"
  /\ sessions[p] = 0
  /\ Goes(p, "backoff", {})
  /\ UNCHANGED <<storeVars, actorVars, qVars, hVars, crawlReqs, lastCrawl, sends, failures, urlCase, posted>>

\* Browser.ensureBrowser: the backoff timer fires, retries++, and the loop
\* either launches again or ends with BrowserError (outside crawl's try)
Backoff(p) ==
  /\ pc[p] = "backoff"
  /\ IF retries[p] + 1 < MAX_RETRIES
       THEN /\ Locals(p, "launch", retries[p] + 1, err[p], fx[p], md[p], html[p])
            /\ UNCHANGED <<storeVars, qVars, hVars, failures>>
       ELSE Throws(p, "BrowserError")
  /\ UNCHANGED <<actorVars, crawlReqs, lastCrawl, sends, urlCase, posted>>

\* browser.newPage() resolves; page.goto is called inside the try block
NewPageOk(p) ==
  /\ pc[p] = "newPage"
  /\ Usable(p)
  /\ Goes(p, "goto", {"newPage"})
  /\ UNCHANGED <<storeVars, actorVars, qVars, hVars, crawlReqs, lastCrawl, sends, failures, urlCase, posted>>

\* browser.newPage() rejects: outside the try block, no finally runs
NewPageFail(p) ==
  /\ pc[p] = "newPage"
  /\ MayFail(p)
  /\ Throws(p, "PageError")
  /\ UNCHANGED <<actorVars, crawlReqs, lastCrawl, sends, urlCase, posted>>

\* page.goto resolves; crawl reads the anchors, scrape reads the content
GotoOk(p) ==
  /\ pc[p] = "goto"
  /\ Usable(p)
  /\ Goes(p, IF p = "Q" THEN "extract" ELSE "content", {"goto"})
  /\ UNCHANGED <<storeVars, actorVars, qVars, hVars, crawlReqs, lastCrawl, sends, failures, urlCase, posted>>

\* A page operation inside the try block rejects (navigation failure, or the
\* renderer was closed under the page)
PageFail(p) ==
  /\ pc[p] \in {"goto", "extract", "content"}
  /\ MayFail(p)
  /\ Unwinds(p, "PageError", {})
  /\ UNCHANGED <<storeVars, actorVars, qVars, hVars, crawlReqs, lastCrawl, sends, failures, urlCase, posted>>

\* Browser.crawl: extractLinks returns and every link is sent to the task
\* queue; page.content is called
ExtractLinks(pages) ==
  /\ pc["Q"] = "extract"
  /\ Usable("Q")
  /\ \E hs \in pages :
       LET r == extractLinks(hs, task.originalUrl, task.limit)
       IN  /\ hrefs' = hs
           /\ links' = r.links
           /\ scanned' = r.scanned
           /\ taskQueue' = taskQueue (+) sendLinks(task, r.links, 1)
  /\ Goes("Q", "content", {"extractLinks"})
  /\ UNCHANGED <<callbackQueue, cache, actorVars, queue, batch, bi, acked, handlerErr,
                 hVars, crawlReqs, lastCrawl, sends, failures, urlCase, posted>>

\* The promises of the CRAWLER.send calls of task t, one for each link
RECURSIVE sendCalls(_, _, _)
sendCalls(t, ls, i) ==
  IF i > Len(ls) THEN EmptyBag
  ELSE SetToBag({[from |-> t, body |-> childTask(t, ls[i]), state |-> "pending"]})
         (+) sendCalls(t, ls, i + 1)

\* Browser.crawl: extractLinks returns and CRAWLER.send is called for every
\* link.  The calls are not awaited: crawl goes on to page.content with the
\* promises pending, and nothing holds a reference to them.
ExtractLinksUnawaited(pages) ==
  /\ pc["Q"] = "extract"
  /\ Usable("Q")
  /\ \E hs \in pages :
       LET r == extractLinks(hs, task.originalUrl, task.limit)
       IN  /\ hrefs' = hs
           /\ links' = r.links
           /\ scanned' = r.scanned
           /\ sends' = sends (+) sendCalls(task, r.links, 1)
  /\ Goes("Q", "content", {"extractLinks"})
  /\ UNCHANGED <<storeVars, actorVars, queue, batch, bi, acked, handlerErr,
                 hVars, crawlReqs, lastCrawl, failures, urlCase, posted>>

\* A pending CRAWLER.send resolves: the message is in the task queue
SendResolves ==
  /\ \E c \in BagToSet(sends) :
       /\ c.state = "pending"
       /\ sends' = sends (-) SetToBag({c})
       /\ taskQueue' = taskQueue (+) SetToBag({message(c.body)})
  /\ UNCHANGED <<callbackQueue, cache, actorVars, procVars, qVars, hVars, crawlReqs,
                 lastCrawl, failures, urlCase, posted>>

\* A pending CRAWLER.send rejects: no handler is attached to the promise, the
\* message is not in the task queue and crawl does not learn of it
SendRejects ==
  /\ \E c \in BagToSet(sends) :
       /\ c.state = "pending"
       /\ sends' = (sends (-) SetToBag({c}))
                     (+) SetToBag({[c EXCEPT !.state = "failed"]})
  /\ UNCHANGED <<storeVars, actorVars, procVars, qVars, hVars, crawlReqs,
                 lastCrawl, failures, urlCase, posted>>

\* Browser.crawl: page.content resolves; CACHE.get is called
CrawlContent ==
  /\ pc["Q"] = "content"
  /\ Usable("Q")
  /\ \E h \in Htmls :
       /\ getMarkdownThrows(h, task.detailed) => MayFail("Q")
       /\ Locals("Q", "cacheGet", retries["Q"], err["Q"], fx["Q"], md["Q"], h)
  /\ hrefs' = << >>
  /\ links' = << >>
  /\ scanned' = 0
  /\ UNCHANGED <<storeVars, actorVars, queue, batch, bi, acked, handlerErr, hVars,
                 crawlReqs, lastCrawl, sends, failures, urlCase, posted>>

\* Browser.scrape: page.content resolves; getMarkdown, then CACHE.put is called
ScrapeContent ==
  /\ pc["H"] = "content"
  /\ Usable("H")
  /\ \E h \in Htmls :
       /\ getMarkdownThrows(h, req.detailed) => MayFail("H")
       /\ IF getMarkdownThrows(h, req.detailed)
            THEN Locals("H", "finally", retries["H"], "ReadabilityError",
                        fx["H"] \cup {"getMarkdown"}, md["H"], h)
            ELSE Locals("H", "cachePut", retries["H"], err["H"],
                        fx["H"] \cup {"getMarkdown"}, getMarkdown(h, req.detailed), h)
  /\ UNCHANGED <<storeVars, actorVars, qVars, hVars, crawlReqs, lastCrawl, sends, failures, urlCase, posted>>

\* Browser.crawl: CACHE.get resolves; a hit is reused, a miss is extracted
\* and CACHE.put is called
CrawlCacheGet ==
  /\ pc["Q"] = "cacheGet"
  /\ LET markdown == cache[task.currentUrl]
     IN  IF truthy(markdown)
           THEN Locals("Q", "callback", retries["Q"], err["Q"],
                       fx["Q"] \cup {"cacheGet"}, markdown, html["Q"])
           ELSE IF getMarkdownThrows(html["Q"], task.detailed)
             THEN Unwinds("Q", "ReadabilityError", {"cacheGet", "getMarkdown"})
             ELSE Locals("Q", "cachePut", retries["Q"], err["Q"],
                         fx["Q"] \cup {"cacheGet", "getMarkdown"},
                         getMarkdown(html["Q"], task.detailed), html["Q"])
  /\ UNCHANGED <<storeVars, actorVars, qVars, hVars, crawlReqs, lastCrawl, sends, failures, urlCase, posted>>

\* CACHE.put resolves: crawl sends the callback task, scrape returns
CachePutOk(p) ==
  /\ pc[p] = "cachePut"
  /\ cache' = [cache EXCEPT ![urlOf(p)] = md[p]]
  /\ Goes(p, IF p = "Q" THEN "callback" ELSE "finally", {"cachePut"})
  /\ UNCHANGED <<taskQueue, callbackQueue, actorVars, qVars, hVars, crawlReqs, lastCrawl, sends, failures, urlCase, posted>>

\* CACHE.put rejects: the await throws inside the try block
CachePutFail(p) ==
  /\ pc[p] = "cachePut"
  /\ failures < MaxFailures
  /\ Unwinds(p, "CacheError", {})
  /\ UNCHANGED <<storeVars, actorVars, qVars, hVars, crawlReqs, lastCrawl, sends, failures, urlCase, posted>>

\* A send that enqueues the callback task twice
CallbackSendTwice ==
  /\ pc["Q"] = "callback"
  /\ callbackQueue' = callbackQueue (+)
       SetToBag({[callback |-> task.callback, url |-> task.currentUrl]}) (+)
       SetToBag({[callback |-> task.callback, url |-> task.currentUrl]})
  /\ Goes("Q", "finally", {"callback"})
  /\ UNCHANGED <<taskQueue, cache, actorVars, qVars, hVars, crawlReqs, lastCrawl, sends, failures, urlCase, posted>>

\* Browser.crawl: CALLBACKS.send resolves
CallbackSendOk ==
  /\ pc["Q"] = "callback"
  /\ callbackQueue' = callbackQueue (+)
       SetToBag({[callback |-> task.callback, url |-> task.currentUrl]})
  /\ Goes("Q", "finally", {"callback"})
  /\ UNCHANGED <<taskQueue, cache, actorVars, qVars, hVars, crawlReqs, lastCrawl, sends, failures, urlCase, posted>>

\* Browser.crawl: CALLBACKS.send rejects
CallbackSendFail ==
  /\ pc["Q"] = "callback"
  /\ failures < MaxFailures
  /\ Unwinds("Q", "QueueError", {})
  /\ UNCHANGED <<storeVars, actorVars, qVars, hVars, crawlReqs, lastCrawl, sends, failures, urlCase, posted>>

\* An arming that does not look at the scheduled alarm
setsAlarmAlways(currentAlarm) == TRUE
\* Browser.ensureBrowserAlarm: currentAlarm == null
setsAlarm(currentAlarm) == currentAlarm = FALSE

\* Browser.ensureBrowserAlarm: the actor's alarm after the call.  The storage
\* keeps one alarm per actor, and setAlarm replaces it.
ensureBrowserAlarm(currentAlarm) == IF setsAlarm(currentAlarm) THEN TRUE ELSE currentAlarm

\* The finally block: page.close resolves, ensureKeepAlive, ensureBrowserAlarm;
\* then the invocation returns, or rethrows the error it is unwinding with
PageCloseOk(p) ==
  /\ pc[p] = "finally"
  /\ Usable(p)
  /\ keptAliveInSeconds' = 0
  /\ alarmSet' = ensureBrowserAlarm(alarmSet)
  /\ IF err[p] # "none" THEN Throws(p, err[p])
     ELSE IF p = "Q"
       THEN /\ Goes("Q", "ack", {"keepAliveExit"} \cup
                             (IF setsAlarm(alarmSet) THEN {"setAlarm"} ELSE {}))
            /\ UNCHANGED <<storeVars, qVars, hVars, failures>>
       ELSE /\ IF truthy(md["H"]) THEN Responds(200, md["H"])
                                 ELSE Responds(500, NoResponseFromScrape)
            /\ UNCHANGED <<storeVars, qVars, failures>>
  /\ UNCHANGED <<browser, crawlReqs, lastCrawl, sends, urlCase, posted>>

\* The finally block: page.close rejects; the rest of the block is skipped
PageCloseFail(p) ==
  /\ pc[p] = "finally"
  /\ MayFail(p) \/ err[p] # "none"
  /\ Throws(p, "PageError")
  /\ UNCHANGED <<actorVars, crawlReqs, lastCrawl, sends, urlCase, posted>>

\* A lifespan test that lets the renderer live one firing longer
alarmExtendsLonger(kept) == kept <= KEEP_BROWSER_ALIVE_IN_SECONDS
\* Browser.alarm: the test that extends the renderer's lifespan
alarmExtends(kept) == kept < KEEP_BROWSER_ALIVE_IN_SECONDS

\* Browser.alarm: the pending alarm fires
Alarm ==
  /\ alarmSet
  /\ keptAliveInSeconds' = keptAliveInSeconds + TEN_SECONDS
  /\ IF alarmExtends(keptAliveInSeconds')
       THEN /\ alarmSet' = TRUE
            /\ UNCHANGED <<browser, handle>>
       ELSE /\ alarmSet' = FALSE
            /\ browser' = IF browser = "none" THEN "none" ELSE "closed"
            /\ handle' = [q \in Procs |-> IF handle[q] = "live" THEN "closed"
                                           ELSE handle[q]]
            \* closing the renderer under an invocation makes that invocation fail
            /\ (\E q \in Procs : handle[q] = "live") => failures < MaxFailures
  /\ UNCHANGED <<storeVars, pc, retries, waits, sessions, err, fx, md, html, qVars,
                 hVars, crawlReqs, lastCrawl, sends, failures, urlCase, posted>>

\* ------------------------------------------------------------------ Spec

Next ==
  \/ PostCrawl
  \/ PostScrape
  \/ ScrapeCacheCheck
  \/ QueueDeliver
  \/ QueueDeliverOther
  \/ UnknownQueue
  \/ QueueDeliverCallbacks
  \/ CallbackPostOk
  \/ CallbackPostFail
  \/ CallbackAck
  \/ CrawlEntry
  \/ Ack
  \/ \E p \in Procs : LaunchOk(p)
  \/ \E p \in Procs : LaunchFail(p)
  \/ \E p \in Procs : SessionsOk(p)
  \/ \E p \in Procs : SessionsFail(p)
  \/ \E p \in Procs : SessionCloseOk(p)
  \/ \E p \in Procs : SessionCloseFail(p)
  \/ \E p \in Procs : CloseBrowserSessions(p)
  \/ \E p \in Procs : Backoff(p)
  \/ \E p \in Procs : NewPageOk(p)
  \/ \E p \in Procs : NewPageFail(p)
  \/ \E p \in Procs : GotoOk(p)
  \/ \E p \in Procs : PageFail(p)
  \/ ExtractLinks(SitePages)
  \/ CrawlContent
  \/ ScrapeContent
  \/ CrawlCacheGet
  \/ \E p \in Procs : CachePutOk(p)
  \/ \E p \in Procs : CachePutFail(p)
  \/ CallbackSendOk
  \/ CallbackSendFail
  \/ \E p \in Procs : PageCloseOk(p)
  \/ \E p \in Procs : PageCloseFail(p)
  \/ Alarm

Spec == Init /\ [][Next]_vars

\* The crawl pipeline alone: /crawl, the queue consumer, the actor and its alarm
NextCrawl ==
  \/ PostCrawl
  \/ QueueDeliver
  \/ CrawlEntry
  \/ Ack
  \/ LaunchOk("Q")
  \/ LaunchFail("Q")
  \/ SessionsOk("Q")
  \/ SessionsFail("Q")
  \/ SessionCloseOk("Q")
  \/ SessionCloseFail("Q")
  \/ CloseBrowserSessions("Q")
  \/ Backoff("Q")
  \/ NewPageOk("Q")
  \/ NewPageFail("Q")
  \/ GotoOk("Q")
  \/ PageFail("Q")
  \/ ExtractLinks(SitePages)
  \/ CrawlContent
  \/ CrawlCacheGet
  \/ CachePutOk("Q")
  \/ CachePutFail("Q")
  \/ CallbackSendOk
  \/ CallbackSendFail
  \/ PageCloseOk("Q")
  \/ PageCloseFail("Q")
  \/ Alarm

SpecCrawl == Init /\ [][NextCrawl]_vars

\* /scrape alone: the HTTP handler, the actor and its alarm
NextScrape ==
  \/ PostScrape
  \/ ScrapeCacheCheck
  \/ LaunchOk("H")
  \/ LaunchFail("H")
  \/ SessionsOk("H")
  \/ SessionsFail("H")
  \/ SessionCloseOk("H")
  \/ SessionCloseFail("H")
  \/ CloseBrowserSessions("H")
  \/ Backoff("H")
  \/ NewPageOk("H")
  \/ NewPageFail("H")
  \/ GotoOk("H")
  \/ PageFail("H")
  \/ ScrapeContent
  \/ CachePutOk("H")
  \/ CachePutFail("H")
  \/ PageCloseOk("H")
  \/ PageCloseFail("H")
  \/ Alarm

SpecScrape == Init /\ [][NextScrape]_vars

\* ------------------------------------------------------------------ one page

\* The tasks whose page is scanned alone: a seed, or a child of a seed
ScanSeeds == {Root, HrefChild}
ScanTasks ==
  { t \in [ currentUrl : ScanSeeds \cup Hrefs, originalUrl : ScanSeeds,
            currentDepth : 0..MaxDepth, maxDepth : 1..MaxDepth,
            limit : 1..MaxLimit, callback : {Callback}, detailed : BOOLEAN ] :
      /\ t.currentDepth <= t.maxDepth
      /\ t.currentDepth = 0 => t.currentUrl = t.originalUrl
      /\ t.currentDepth > 0 => /\ t.currentUrl \in Hrefs
                               /\ startsWith(t.currentUrl, t.originalUrl) }

\* The actor has opened the page of task t and page.goto has resolved.  For
\* a seed this is the first invocation of the actor; for a child the seed
\* was crawled and acknowledged before, its page holding the one link.
InitScan ==
  /\ \E t \in ScanTasks :
       /\ queue = CrawlerQueue
       /\ batch = <<message(t)>>
       /\ lastCrawl = requestOf(t)
       /\ sends = EmptyBag
       /\ cache = [u \in Urls |->
                     IF t.currentDepth > 0 /\ u = t.originalUrl
                       THEN getMarkdown("article", t.detailed) ELSE NoEntry]
       /\ callbackQueue =
            IF t.currentDepth > 0
              THEN SetToBag({[callback |-> t.callback, url |-> t.originalUrl]})
              ELSE EmptyBag
       /\ alarmSet = (t.currentDepth > 0)
       /\ fx = [p \in Procs |->
                  IF p = "H" THEN {}
                  ELSE IF t.currentDepth > 0 THEN {"keepAlive", "newPage", "goto"}
                  ELSE {"keepAlive", "launch", "newPage", "goto"}]
  /\ taskQueue = EmptyBag
  /\ browser = "open"
  /\ keptAliveInSeconds = 0
  /\ pc = [p \in Procs |-> IF p = "Q" THEN "extract" ELSE "idle"]
  /\ retries = [p \in Procs |-> 0]
  /\ waits = [p \in Procs |-> << >>]
  /\ sessions = [p \in Procs |-> 0]
  /\ handle = [p \in Procs |-> IF p = "Q" THEN "live" ELSE "none"]
  /\ err = [p \in Procs |-> "none"]
  /\ md = [p \in Procs |-> NoEntry]
  /\ html = [p \in Procs |-> "none"]
  /\ bi = 1
  /\ acked = {}
  /\ hrefs = << >>
  /\ links = << >>
  /\ scanned = 0
  /\ handlerErr = "none"
  /\ req = NoReq
  /\ scrapes = 0
  /\ lastResp = NoResp
  /\ crawlReqs = 1
  /\ failures = 0
  /\ urlCase = NoCase
  /\ posted = EmptyBag

NextScan == ExtractLinks(AnchorLists)

SpecScan == InitScan /\ [][NextScan]_vars

\* ------------------------------------------------------------------ scope predicate

Tails == UNION {[1..n -> TailChars] : n \in 0..MaxTail}

\* Parents are absolute URLs of one site; children are absolute URLs of
\* either site, or relative references (none starting with "//")
ParentStrings == {<<"O">> \o t : t \in Tails}
ChildStrings ==
  {<<o>> \o t : o \in OriginTokens, t \in Tails}
    \cup {t \in Tails : ~startsWith(t, <<"/", "/">>)}

InitUrl ==
  /\ InitSystem
  /\ \E parent \in ParentStrings, child \in ChildStrings :
       urlCase = [NoCase EXCEPT !.parent = parent, !.child = child]

\* One call of checkIsValidChildUrl, in both revisions
CheckUrl ==
  /\ ~urlCase.done
  /\ urlCase' =
       [ parent |-> urlCase.parent,
         child  |-> urlCase.child,
         done   |-> TRUE,
         threw  |-> checkIsValidChildUrlThrows(urlCase.parent, urlCase.child),
         value  |-> /\ ~checkIsValidChildUrlThrows(urlCase.parent, urlCase.child)
                    /\ checkIsValidChildUrl(urlCase.parent, urlCase.child),
         normalized |-> checkIsValidChildUrlNormalized(urlCase.parent, urlCase.child) ]
  /\ UNCHANGED <<storeVars, actorVars, procVars, qVars, hVars, crawlReqs, lastCrawl, sends, failures,
                 posted>>

SpecUrl == InitUrl /\ [][CheckUrl]_vars

\* The seeds POST /crawl can send
Seeds ==
  {seedTask(url, depth, limit, Callback, detailed) :
     url \in SeedUrls, depth \in 1..MaxDepth, limit \in 1..MaxSeedLimit,
     detailed \in BOOLEAN}

\* Two equal POST /crawl requests have been answered and both seeds have
\* been crawled without a failure: each has sent one child, stored the
\* artifact of the seed page and sent its callback task; the renderer is
\* open and the alarm the first exit armed is pending
InitBatch ==
  /\ \E s \in Seeds :
       /\ \E l1, l2 \in {HrefSelf, HrefChild} :
            taskQueue = sendLinks(s, <<l1>>, 1) (+) sendLinks(s, <<l2>>, 1)
       /\ lastCrawl = requestOf(s)
       /\ sends = EmptyBag
       /\ cache = [u \in Urls |-> IF u = s.currentUrl
                                     THEN getMarkdown("article", s.detailed)
                                     ELSE NoEntry]
       /\ callbackQueue = SetToBag({[callback |-> s.callback, url |-> s.currentUrl]})
                            (+) SetToBag({[callback |-> s.callback, url |-> s.currentUrl]})
  /\ crawlReqs = 2
  /\ browser = "open"
  /\ keptAliveInSeconds = 0
  /\ alarmSet = TRUE
  /\ pc = [p \in Procs |-> "idle"]
  /\ retries = [p \in Procs |-> 0]
  /\ waits = [p \in Procs |-> << >>]
  /\ sessions = [p \in Procs |-> 0]
  /\ handle = [p \in Procs |-> "none"]
  /\ err = [p \in Procs |-> "none"]
  /\ fx = [p \in Procs |-> {}]
  /\ md = [p \in Procs |-> NoEntry]
  /\ html = [p \in Procs |-> "none"]
  /\ queue = NoQueue
  /\ batch = << >>
  /\ bi = 0
  /\ acked = {}
  /\ hrefs = << >>
  /\ links = << >>
  /\ scanned = 0
  /\ handlerErr = "none"
  /\ req = NoReq
  /\ scrapes = 0
  /\ lastResp = NoResp
  /\ failures = 0
  /\ urlCase = NoCase
  /\ posted = EmptyBag

\* The queue consumer and the actor, with no further request
NextBatch ==
  \/ QueueDeliver
  \/ QueueDeliverOther
  \/ UnknownQueue
  \/ CrawlEntry
  \/ Ack
  \/ LaunchOk("Q")
  \/ LaunchFail("Q")
  \/ SessionsOk("Q")
  \/ SessionsFail("Q")
  \/ SessionCloseOk("Q")
  \/ SessionCloseFail("Q")
  \/ CloseBrowserSessions("Q")
  \/ Backoff("Q")
  \/ NewPageOk("Q")
  \/ NewPageFail("Q")
  \/ GotoOk("Q")
  \/ PageFail("Q")
  \/ ExtractLinks(SitePages)
  \/ CrawlContent
  \/ CrawlCacheGet
  \/ CachePutOk("Q")
  \/ CachePutFail("Q")
  \/ CallbackSendOk
  \/ CallbackSendFail
  \/ PageCloseOk("Q")
  \/ PageCloseFail("Q")
  \/ Alarm

SpecBatch == InitBatch /\ [][NextBatch]_vars

\* A /crawl request of depth 1 and limit 1 has been served to its end without
\* a failure: the seed and its child were crawled and acknowledged, each
\* stored the artifact of its page and sent its callback task, and the
\* grandchild was dropped by the depth check.  The cache entries last an
\* hour, so either may have expired since.
InitDelivery ==
  /\ \E s \in Seeds, l \in {HrefSelf, HrefChild}, expired \in SUBSET Urls :
       /\ s.maxDepth = 1 /\ s.limit = 1
       /\ lastCrawl = requestOf(s)
       /\ sends = EmptyBag
       /\ cache = [u \in Urls |->
                     IF u \in {s.currentUrl, l} \ expired
                       THEN getMarkdown("article", s.detailed) ELSE NoEntry]
       /\ callbackQueue = SetToBag({[callback |-> s.callback, url |-> s.currentUrl]})
                            (+) SetToBag({[callback |-> s.callback, url |-> l]})
       /\ expired \subseteq {s.currentUrl, l}
  /\ taskQueue = EmptyBag
  /\ crawlReqs = 1
  /\ browser = "open"
  /\ keptAliveInSeconds = 0
  /\ alarmSet = TRUE
  /\ pc = [p \in Procs |-> "idle"]
  /\ retries = [p \in Procs |-> 0]
  /\ waits = [p \in Procs |-> << >>]
  /\ sessions = [p \in Procs |-> 0]
  /\ handle = [p \in Procs |-> "none"]
  /\ err = [p \in Procs |-> "none"]
  /\ fx = [p \in Procs |-> {}]
  /\ md = [p \in Procs |-> NoEntry]
  /\ html = [p \in Procs |-> "none"]
  /\ queue = NoQueue
  /\ batch = << >>
  /\ bi = 0
  /\ acked = {}
  /\ hrefs = << >>
  /\ links = << >>
  /\ scanned = 0
  /\ handlerErr = "none"
  /\ req = NoReq
  /\ scrapes = 0
  /\ lastResp = NoResp
  /\ failures = 0
  /\ urlCase = NoCase
  /\ posted = EmptyBag

\* The consumer of the callbacks queue, and the alarm
NextDelivery ==
  \/ QueueDeliverCallbacks
  \/ CallbackPostOk
  \/ CallbackPostFail
  \/ CallbackAck
  \/ Alarm

SpecDelivery == InitDelivery /\ [][NextDelivery]_vars

\* ------------------------------------------------------------------ one actor

\* Every queue batch and every /scrape request goes to the actor named
\* "browser".  MaxFailures /scrape requests have been answered 500 after
\* three launches failed, which leaves the actor as it was constructed.
InitShared ==
  /\ taskQueue = EmptyBag
  /\ callbackQueue = EmptyBag
  /\ cache = [u \in Urls |-> NoEntry]
  /\ browser = "none"
  /\ keptAliveInSeconds = 0
  /\ alarmSet = FALSE
  /\ pc = [p \in Procs |-> "idle"]
  /\ retries = [p \in Procs |-> 0]
  /\ waits = [p \in Procs |-> << >>]
  /\ sessions = [p \in Procs |-> 0]
  /\ handle = [p \in Procs |-> "none"]
  /\ err = [p \in Procs |-> "none"]
  /\ fx = [p \in Procs |-> {}]
  /\ md = [p \in Procs |-> NoEntry]
  /\ html = [p \in Procs |-> "none"]
  /\ queue = NoQueue
  /\ batch = << >>
  /\ bi = 0
  /\ acked = {}
  /\ hrefs = << >>
  /\ links = << >>
  /\ scanned = 0
  /\ handlerErr = "none"
  /\ req = NoReq
  /\ scrapes = MaxFailures
  /\ lastResp = [url |-> Root, cacheEnabled |-> FALSE, status |-> 500,
                 body |-> NoEntry, fx |-> {"cleanup"}]
  /\ crawlReqs = 0
  /\ lastCrawl = NoCrawl
  /\ sends = EmptyBag
  /\ failures = MaxFailures
  /\ posted = EmptyBag
  /\ urlCase = NoCase

\* The steps of both entry points in which every awaited operation resolves
NextShared ==
  \/ PostCrawl
  \/ PostScrape
  \/ ScrapeCacheCheck
  \/ QueueDeliver
  \/ CrawlEntry
  \/ Ack
  \/ \E p \in Procs : LaunchOk(p)
  \/ \E p \in Procs : NewPageOk(p)
  \/ \E p \in Procs : GotoOk(p)
  \/ ExtractLinks(SitePages)
  \/ CrawlContent
  \/ ScrapeContent
  \/ CrawlCacheGet
  \/ \E p \in Procs : CachePutOk(p)
  \/ CallbackSendOk
  \/ \E p \in Procs : PageCloseOk(p)
  \/ Alarm

SpecShared == InitShared /\ [][NextShared]_vars

\* ------------------------------------------------------------------ queueHandler

\* The worker with queueHandler of lib/queues.ts as its queue consumer: the
\* crawl pipeline and the delivery of the callback tasks it produces
NextQueueHandler ==
  \/ PostCrawl
  \/ QueueDeliver
  \/ CrawlEntry
  \/ QueueHandlerCrawlerAck
  \/ LaunchOk("Q")
  \/ LaunchFail("Q")
  \/ SessionsOk("Q")
  \/ SessionsFail("Q")
  \/ SessionCloseOk("Q")
  \/ SessionCloseFail("Q")
  \/ CloseBrowserSessions("Q")
  \/ Backoff("Q")
  \/ NewPageOk("Q")
  \/ NewPageFail("Q")
  \/ GotoOk("Q")
  \/ PageFail("Q")
  \/ ExtractLinks(SitePages)
  \/ CrawlContent
  \/ CrawlCacheGet
  \/ CachePutOk("Q")
  \/ CachePutFail("Q")
  \/ CallbackSendOk
  \/ CallbackSendFail
  \/ PageCloseOk("Q")
  \/ PageCloseFail("Q")
  \/ QueueDeliverCallbacks
  \/ CallbackPostOk
  \/ CallbackPostFail
  \/ QueueHandlerCallbacksAck
  \/ Alarm

SpecQueueHandler == Init /\ [][NextQueueHandler]_vars

\* ------------------------------------------------------------------ fan-out sends

\* The crawl pipeline with the sends of the fan-out as the code issues them
NextSends ==
  \/ PostCrawl
  \/ QueueDeliver
  \/ CrawlEntry
  \/ Ack
  \/ LaunchOk("Q")
  \/ LaunchFail("Q")
  \/ SessionsOk("Q")
  \/ SessionsFail("Q")
  \/ SessionCloseOk("Q")
  \/ SessionCloseFail("Q")
  \/ CloseBrowserSessions("Q")
  \/ Backoff("Q")
  \/ NewPageOk("Q")
  \/ NewPageFail("Q")
  \/ GotoOk("Q")
  \/ PageFail("Q")
  \/ ExtractLinksUnawaited(SitePages)
  \/ SendResolves
  \/ SendRejects
  \/ CrawlContent
  \/ CrawlCacheGet
  \/ CachePutOk("Q")
  \/ CachePutFail("Q")
  \/ CallbackSendOk
  \/ CallbackSendFail
  \/ PageCloseOk("Q")
  \/ PageCloseFail("Q")
  \/ Alarm

SpecSends == Init /\ [][NextSends]_vars

\* The crawl pipeline under the runtime's scheduling: a message in the queue
\* is delivered, a pending promise settles, an armed alarm fires
FairSpecCrawl == SpecCrawl /\ WF_vars(NextCrawl)

\* The /scrape path under the runtime's scheduling: a pending promise of a
\* request being served settles and an armed alarm fires; whether another
\* request arrives is up to the clients
FairSpecScrape ==
  SpecScrape /\ WF_vars(Alarm) /\ WF_vars(NextScrape /\ pc["H"] # "idle")

\* ------------------------------------------------------------------ depth

\* C1: Browser.crawl called with currentDepth > maxDepth returns at once: no
\* renderer is acquired, no page opened, nothing is sent to either queue,
\* the cache is neither read nor written, the idle counter and the alarm
\* stay as they are; a task with currentDepth <= maxDepth is processed
\* (the idle counter is reset and the renderer is acquired).
C1_DepthNoOp ==
  [][ (pc["Q"] = "entry" /\ pc'["Q"] # "entry") =>
        IF task.currentDepth > task.maxDepth
          THEN /\ pc'["Q"] = "ack"
               /\ fx'["Q"] = {}
               /\ handle'["Q"] = "none"
               /\ UNCHANGED <<taskQueue, callbackQueue, cache, browser,
                              keptAliveInSeconds, alarmSet>>
          ELSE /\ pc'["Q"] \in {"launch", "newPage"}
               /\ "keepAlive" \in fx'["Q"]
               /\ keptAliveInSeconds' = 0 ]_vars

C1_Witness ==
  /\ pc["Q"] = "ack"
  /\ task.currentDepth > task.maxDepth
  /\ fx["Q"] = {}
  /\ alarmSet
  /\ keptAliveInSeconds > 0

\* no task of depth maxDepth + 2 or more is ever in the task queue or in a batch
DepthBound ==
  /\ \A m \in BagToSet(taskQueue) : m.body.currentDepth <= m.body.maxDepth + 1
  /\ \A i \in DOMAIN batch : batch[i].body.currentDepth <= batch[i].body.maxDepth + 1

\* the traversal is over: nothing queued, nothing being handled
Drained == taskQueue = EmptyBag /\ pc["Q"] = "idle"

\* C2: depth-bounded termination: once a seed was sent, the task queue
\* eventually stays empty, and no enqueued task ever has
\* currentDepth > maxDepth + 1.
C2_DepthBoundedTermination ==
  /\ []DepthBound
  /\ (crawlReqs > 0) ~> [](Drained)

C2_Witness ==
  /\ Drained
  /\ crawlReqs > 0
  /\ \E u \in Hrefs : cache[u] # NoEntry
  /\ BagCardinality(callbackQueue) >= 2

\* ------------------------------------------------------------------ fan-out

\* The step in which Browser.crawl reads the anchors and sends the children
FanOutStep == pc["Q"] = "extract" /\ pc'["Q"] = "content"

\* The messages that step added to the task queue
Children == taskQueue' (-) taskQueue

\* C3: every child sent has the parent's currentDepth + 1, a link found on
\* the page as currentUrl, and the parent's originalUrl, maxDepth, limit,
\* callback and detailed.
C3_ChildFields ==
  [][ FanOutStep =>
        \A m \in BagToSet(Children) :
          /\ m.body.currentDepth = task.currentDepth + 1
          /\ m.body.currentUrl \in Range(hrefs')
          /\ m.body.originalUrl = task.originalUrl
          /\ m.body.maxDepth = task.maxDepth
          /\ m.body.limit = task.limit
          /\ m.body.callback = task.callback
          /\ m.body.detailed = task.detailed ]_vars

C3_Witness ==
  /\ pc["Q"] = "content"
  /\ task.currentDepth = 1
  /\ task.detailed
  /\ BagCardinality(taskQueue) = 2
  /\ \A m \in BagToSet(taskQueue) : m.body.currentDepth = 2 /\ m.body.detailed

\* the distinct anchors among the first i of hs that start with url
Matching(hs, url, i) == {hs[j] : j \in {k \in 1..i : startsWith(hs[k], url)}}

InScope(parent, child) ==
  LET parentUrl == parseUrl(parent)
      childUrl  == parseUrl(child)
      parentPath == stripTrailingSlash(parentUrl.pathname)
      childPath  == stripTrailingSlash(childUrl.pathname)
  IN  /\ childUrl.origin = parentUrl.origin
      /\ startsWith(childPath, parentPath)
      /\ childPath # parentPath
      /\ childUrl.hash = << >>
      /\ child # parent

\* C5: every child URL sent to the task queue is in scope of the task's
\* originalUrl (same scheme and host, path strictly below, no fragment, not
\* originalUrl itself); a cross-origin link is never sent.
C5_ChildrenInScope ==
  [][ FanOutStep =>
        \A m \in BagToSet(Children) :
          InScope(task.originalUrl, m.body.currentUrl) ]_vars

\* C6: for absolute parent and child, checkIsValidChildUrl answers true
\* exactly when the child is in scope of the parent.
C6_ScopePredicate ==
  (urlCase.done /\ isAbsolute(urlCase.child)) =>
    /\ ~urlCase.threw
    /\ urlCase.value <=> InScope(urlCase.parent, urlCase.child)

\* a root-relative path such as "/subpath", a bare segment such as "subpath"
RootRelativePath(s) == Len(s) >= 2 /\ s[1] = "/" /\ \A i \in 2..Len(s) : s[i] = "a"
BareSegment(s) == Len(s) >= 1 /\ \A i \in 1..Len(s) : s[i] = "a"

\* C7: given a relative child, checkIsValidChildUrl returns without
\* throwing; a root-relative path is a valid child of a parent at the origin
\* root (with or without trailing slash) and of a parent whose non-root path
\* ends with "/"; a bare segment is not a valid child of a parent whose path
\* does not end with "/".
C7_RelativeChild ==
  (urlCase.done /\ ~isAbsolute(urlCase.child)) =>
    LET parentUrl == parseUrl(urlCase.parent)
    IN  /\ ~urlCase.threw
        /\ ( /\ RootRelativePath(urlCase.child)
             /\ "#" \notin Range(urlCase.parent)
             /\ endsWith(parentUrl.pathname, "/") ) => urlCase.value
        /\ ( /\ BareSegment(urlCase.child)
             /\ ~endsWith(parentUrl.pathname, "/") ) => ~urlCase.value

\* ------------------------------------------------------------------ cache

\* C8: in Browser.crawl, when the cache holds an entry for the page the
\* extractor is not run and the entry is not overwritten; otherwise the
\* extractor runs on the page's HTML and its result is written under the
\* page's key; when the callback task is sent the cache holds an entry for
\* the page.
C8_CacheAside ==
  [][ /\ (pc["Q"] = "cacheGet" /\ pc'["Q"] # "cacheGet") =>
           IF cache[task.currentUrl] # NoEntry
             THEN /\ pc'["Q"] = "callback"
                  /\ "getMarkdown" \notin fx'["Q"]
                  /\ md'["Q"] = cache[task.currentUrl]
             ELSE /\ "getMarkdown" \in fx'["Q"]
                  /\ \/ pc'["Q"] = "cachePut"
                        /\ md'["Q"] = getMarkdown(html["Q"], task.detailed)
                     \/ pc'["Q"] = "finally" /\ err'["Q"] = "ReadabilityError"
      /\ (cache' # cache) =>
           /\ cache[task.currentUrl] = NoEntry
           /\ cache' = [cache EXCEPT ![task.currentUrl] =
                                       getMarkdown(html["Q"], task.detailed)]
      /\ (callbackQueue' # callbackQueue) =>
           /\ cache[task.currentUrl] # NoEntry
           /\ callbackQueue' = callbackQueue (+)
                SetToBag({[callback |-> task.callback, url |-> task.currentUrl]})
    ]_vars

\* C9: a /scrape request (cache enabled) for a URL whose cache entry is
\* present is answered with that entry, the artifact the earlier request
\* returned, without acquiring the renderer, fetching or extracting.
C9_ScrapeCacheIdempotent ==
  [][ (pc["H"] = "cacheCheck" /\ pc'["H"] # "cacheCheck"
         /\ cache[req.url] # NoEntry) =>
        /\ pc'["H"] = "idle"
        /\ lastResp'.status = 200
        /\ lastResp'.body = cache[req.url]
        /\ lastResp'.fx = {}
        /\ (lastResp.url = req.url /\ lastResp.fx # {}) =>
             lastResp'.body = lastResp.body ]_vars

\* C10: a rejected CACHE.put does not abort the invocation: crawl goes on
\* to send the callback task and the message is acknowledged, scrape
\* returns the artifact, and no error leaves the actor.
C10_CachePutFailureAbsorbed ==
  [][ \A p \in Procs :
        (pc[p] = "cachePut" /\ pc'[p] # "cachePut") =>
          /\ err'[p] = "none"
          /\ pc'[p] = IF p = "Q" THEN "callback" ELSE "finally"
          /\ md'[p] = md[p] ]_vars

\* ------------------------------------------------------------------ C11

\* A step in which invocation p calls Browser.ensureBrowser
CallsEnsureBrowser(p) ==
  /\ pc[p] \in {"idle", "entry", "cacheCheck"}
  /\ pc'[p] \in {"newPage", "launch"}

\* C11: ensureBrowser, called while the actor holds a connected renderer
\* handle, returns that same handle: the caller goes straight on to newPage
\* holding this.browser, this.browser is not replaced, and the call makes no
\* launch attempt, no orphan-session cleanup and no backoff wait.
C11_ConnectedHandleReused ==
  [][\A p \in Procs :
       CallsEnsureBrowser(p) /\ browser = "open" =>
         /\ pc'[p] = "newPage"
         /\ handle'[p] = "live"
         /\ browser' = browser
         /\ fx'[p] \cap {"launch", "cleanup"} = {}
         /\ retries'[p] = 0
         /\ waits'[p] = << >>]_vars

\* The queue handler's crawl got the renderer a previous task had launched
C11_Witness ==
  /\ pc["Q"] = "newPage"
  /\ handle["Q"] = "live"
  /\ "launch" \notin fx["Q"]
  /\ task.currentDepth = 1

\* ------------------------------------------------------------------ C12

\* The launch attempts invocation p's ensureBrowser call has made or is making
Attempts(p) == IF pc[p] \in Ensuring THEN retries[p] + 1 ELSE 0

\* In the retry loop: at most three attempts, and the n-th wait is n seconds
BoundedBackoff(p) ==
  pc[p] \in Ensuring =>
    /\ Attempts(p) <= 3
    /\ Len(waits[p]) = IF pc[p] = "backoff" THEN retries[p] + 1 ELSE retries[p]
    /\ \A n \in 1..Len(waits[p]) : waits[p][n] = 1000 * n

\* A launch that succeeds ends the call; the call fails, with BrowserError,
\* exactly when the wait after the third failed attempt is over
LaunchOutcome(p) ==
  /\ pc[p] = "launch" /\ browser' = "open" /\ browser' # browser =>
       pc'[p] = "newPage" /\ handle'[p] = "live"
  /\ pc[p] = "launch" /\ pc'[p] = "newPage" => "launch" \notin fx[p]
  /\ pc[p] = "backoff" /\ pc'[p] # "backoff" =>
       IF retries[p] = 2
         THEN /\ pc'[p] = "idle"
              /\ waits[p] = <<1000, 2000, 3000>>
              /\ p = "Q" => handlerErr' = "BrowserError"
         ELSE pc'[p] = "launch" /\ retries'[p] = retries[p] + 1
  /\ p = "Q" /\ handlerErr' = "BrowserError" /\ handlerErr # "BrowserError" =>
       pc[p] = "backoff" /\ retries[p] = 2

\* C12: one ensureBrowser call makes at most 3 launch attempts, returns at
\* the first that succeeds without attempting again, raises BrowserError if
\* all 3 fail, and waits 1 s, 2 s, 3 s after the first, second, third failure.
C12_BoundedBackoff ==
  /\ [](\A p \in Procs : BoundedBackoff(p))
  /\ [][\A p \in Procs : LaunchOutcome(p)]_vars

\* The third attempt has failed and the third wait is running
C12_Witness ==
  /\ pc["Q"] = "backoff"
  /\ retries["Q"] = 2
  /\ waits["Q"] = <<1000, 2000, 3000>>

\* ------------------------------------------------------------------ C13

\* A step of invocation p inside or out of closeBrowserSessions
CleanupStep(p) ==
  /\ pc[p] \in {"cleanup", "closing"}
  /\ <<pc[p], sessions[p]>> # <<pc'[p], sessions'[p]>>

\* C13: after every failed launch attempt the orphaned-session cleanup runs
\* before the backoff wait, and a failure inside the cleanup (listing the
\* sessions, connecting to one, closing one) is absorbed: the invocation
\* stays in ensureBrowser with no error, the loop goes on to the remaining
\* sessions, and the count of launch attempts is unchanged.
C13_CleanupAbsorbsFailures ==
  [][\A p \in Procs :
       /\ pc[p] = "launch" /\ pc'[p] \notin {"launch", "newPage"} =>
            pc'[p] = "cleanup"
       /\ pc'[p] = "backoff" /\ pc[p] # "backoff" =>
            pc[p] = "closing" /\ sessions[p] = 0
       /\ CleanupStep(p) =>
            /\ pc'[p] \in {"closing", "backoff"}
            /\ err'[p] = "none"
            /\ retries'[p] = retries[p]
            /\ waits'[p] = IF pc'[p] = "backoff"
                             THEN Append(waits[p], backoffDelay(retries[p]))
                             ELSE waits[p]
            /\ pc[p] = "closing" /\ sessions[p] > 0 =>
                 pc'[p] = "closing" /\ sessions'[p] = sessions[p] - 1]_vars

\* The cleanup met a failure, went through all the sessions, and the backoff
\* wait of the second attempt is running
C13_Witness ==
  /\ pc["Q"] = "backoff"
  /\ "sessionError" \in fx["Q"]
  /\ retries["Q"] = 1

\* ------------------------------------------------------------------ C14

\* Positions of the handlers outside Browser.scrape and outside the part of
\* Browser.crawl that follows the depth check
OutsideTask == {"idle", "dispatch", "post", "posted", "entry", "ack", "cacheCheck"}

\* C14: every task invocation (scrape, and crawl within the depth bound)
\* sets keptAliveInSeconds to 0 on entry, at the latest when ensureBrowser
\* has returned, and again on exit, whichever way it exits: by returning, or
\* with a renderer-unavailable, page-open or extraction failure.
C14_ResetOnEntryAndExit ==
  [][\A p \in Procs :
       /\ pc[p] # "newPage" /\ pc'[p] = "newPage" => keptAliveInSeconds' = 0
       /\ pc[p] \notin OutsideTask /\ pc'[p] \in OutsideTask =>
            keptAliveInSeconds' = 0]_vars

\* ------------------------------------------------------------------ C15

\* A step in which the idle timer fires: no other step raises the counter
AlarmFires == keptAliveInSeconds' > keptAliveInSeconds

\* C15: each firing of the idle timer adds 10 to keptAliveInSeconds; if the
\* counter is then below 60 the timer is armed again and the renderer is
\* left open; if it is 60 or more the renderer handle is closed and the
\* timer is not armed again, and from then on the handle is not connected,
\* so that the next ensureBrowser call launches a new renderer.
C15_AlarmStep ==
  [][/\ AlarmFires =>
          /\ alarmSet
          /\ keptAliveInSeconds' = keptAliveInSeconds + 10
          /\ IF keptAliveInSeconds' < 60
               THEN alarmSet' /\ browser' = browser /\ handle' = handle
               ELSE /\ ~alarmSet'
                    /\ browser' # "open"
                    /\ browser # "none" => browser' = "closed"
                    /\ \A p \in Procs : handle'[p] # "live"
     /\ \A p \in Procs :
          CallsEnsureBrowser(p) /\ browser # "open" => pc'[p] = "launch"]_vars

\* The renderer was closed by the sixth firing and a task is launching anew
C15_Witness ==
  /\ browser = "closed"
  /\ ~alarmSet
  /\ pc["Q"] = "launch"
  /\ keptAliveInSeconds = 0

\* ------------------------------------------------------------------ C16

IdleWithRenderer == pc["H"] = "idle" /\ browser = "open"

\* C17: when a task has exited with a live renderer and no further task is
\* invoked, the renderer is eventually closed; and the timer closes it at
\* the firing that takes the idle counter from 50 to 60, the sixth in a row,
\* never at an earlier one.
C17_IdleTeardown ==
  /\ [][browser = "open" /\ browser' # "open" =>
          keptAliveInSeconds = 50 /\ keptAliveInSeconds' = 60]_vars
  /\ [](IdleWithRenderer => <>(browser # "open" \/ pc["H"] # "idle"))

\* ------------------------------------------------------------------ C18

\* The messages of the batch from the i-th on
RECURSIVE BatchFrom(_)
BatchFrom(i) ==
  IF i > Len(batch) THEN EmptyBag
  ELSE SetToBag({batch[i]}) (+) BatchFrom(i + 1)

\* Browser.crawl has returned for the message being processed
TaskCompleted ==
  /\ pc["Q"] = "ack"
  /\ err["Q"] = "none"
  /\ depthReached(task.currentDepth, task.maxDepth) \/ "keepAliveExit" \in fx["Q"]

\* C18: the queue handler processes a batch of the crawler queue in order
\* and acknowledges a message only after its own task has completed: while
\* message i is processed exactly the messages before i are acknowledged,
\* and when the task of message i fails the handler ends, and message i and
\* the messages after it go back to the queue while those before it do not.
C18_AckAfterTask ==
  /\ [](pc["Q"] # "idle" => bi \in 1..Len(batch) /\ acked = 1..(bi - 1))
  /\ [](pc["Q"] = "ack" => TaskCompleted)
  /\ [][/\ acked' # acked /\ acked' # {} =>
             TaskCompleted /\ acked' = acked \cup {bi} /\ bi' = bi + 1
        /\ queue = CrawlerQueue /\ pc["Q"] # "idle" /\ pc'["Q"] = "idle" =>
             IF handlerErr' = "none"
               THEN TaskCompleted /\ bi = Len(batch) /\ taskQueue' = taskQueue
               ELSE ~TaskCompleted /\ taskQueue' = taskQueue (+) BatchFrom(bi)]_vars

\* The first message of a batch of two is acknowledged and the task of the
\* second is failing
C18_Witness ==
  /\ queue = CrawlerQueue
  /\ Len(batch) = 2
  /\ bi = 2
  /\ acked = {1}
  /\ pc["Q"] = "finally"
  /\ err["Q"] # "none"

\* ------------------------------------------------------------------ C19

\* The handler is running on a batch of neither the crawler queue nor the
\* callbacks queue
ForeignBatch == pc["Q"] # "idle" /\ queue \notin {CrawlerQueue, CallbacksQueue}

\* C19: a batch tagged with a queue name other than the crawler queue and
\* the callbacks queue makes the queue handler fail with the unknown-queue
\* error: none of its messages is processed or acknowledged, and the handler
\* invocation ends with that error, not with a normal return.
C19_UnknownQueueFails ==
  /\ [](ForeignBatch =>
          /\ pc["Q"] = "dispatch"
          /\ acked = {}
          /\ bi = 1
          /\ fx["Q"] = {}
          /\ handle["Q"] = "none")
  /\ [][ForeignBatch /\ pc'["Q"] # pc["Q"] =>
          /\ pc'["Q"] = "idle"
          /\ handlerErr' = "UnknownQueueError"
          /\ acked' = {}
          /\ UNCHANGED <<storeVars, actorVars>>]_vars

\* The handler has failed on a batch of an unknown queue
C19_Witness ==
  /\ pc["Q"] = "idle"
  /\ handlerErr = "UnknownQueueError"

\* ------------------------------------------------------------------ C20

\* The handler's invocation ends with one of the errors es, the message
\* being processed unacknowledged and back in the queue with those after it
TaskFatal(es) ==
  /\ pc'["Q"] = "idle"
  /\ handlerErr' \in es
  /\ bi \notin acked
  /\ taskQueue' = taskQueue (+) BatchFrom(bi)

\* C20: a BrowserError (three launch attempts failed) or a ReadabilityError
\* inside Browser.crawl is fatal for the task: the actor makes no further
\* attempt within the invocation, the error leaves crawl and the queue
\* handler, and the message is not acknowledged, so that only the queue's
\* redelivery runs the task again.
C20_TaskFatal ==
  [][/\ pc["Q"] = "backoff" /\ retries["Q"] = 2 /\ pc'["Q"] # "backoff" =>
          TaskFatal({"BrowserError"})
     /\ /\ pc["Q"] = "cacheGet" /\ pc'["Q"] # "cacheGet"
        /\ ~truthy(cache[task.currentUrl])
        /\ getMarkdownThrows(html["Q"], task.detailed)
        => pc'["Q"] = "finally" /\ err'["Q"] = "ReadabilityError"
     /\ pc["Q"] = "finally" /\ err["Q"] = "ReadabilityError" /\ pc'["Q"] # "finally" =>
          \* an error of page.close() replaces the one being propagated
          TaskFatal({"ReadabilityError", "PageError"})]_vars

\* The handler has failed with ReadabilityError and the message is back in
\* the queue
C20_Witness ==
  /\ pc["Q"] = "idle"
  /\ handlerErr = "ReadabilityError"
  /\ \E m \in BagToSet(taskQueue) : m.body.currentDepth = 0

\* ------------------------------------------------------------------ C21

\* Browser.crawl ends with an error other than one of page.close() alone:
\* BrowserError, a rejected newPage, or an error unwinding through finally
CrawlFails ==
  /\ queue = CrawlerQueue
  /\ pc["Q"] \notin OutsideTask
  /\ pc'["Q"] = "idle"
  /\ pc["Q"] = "finally" => err["Q"] # "none"

\* C21: a Browser.crawl invocation that completes sends exactly one
\* CallbackTask, for its currentUrl and to its task's callback; an
\* invocation that fails (renderer unavailable, navigation or extraction
\* failure) or that the depth check drops sends none.
C21_OneCallbackPerCrawl ==
  [][/\ callbackQueue' # callbackQueue =>
          /\ pc["Q"] = "callback"
          /\ "callback" \notin fx["Q"]
          /\ callbackQueue' = callbackQueue (+)
               SetToBag({[callback |-> task.callback, url |-> task.currentUrl]})
     /\ pc["Q"] # "ack" /\ pc'["Q"] = "ack" =>
          IF depthReached(task.currentDepth, task.maxDepth)
            THEN pc["Q"] = "entry" /\ callbackQueue' = callbackQueue
            ELSE pc["Q"] = "finally" /\ "callback" \in fx["Q"]
     /\ CrawlFails => "callback" \notin fx["Q"] /\ callbackQueue' = callbackQueue]_vars

\* A crawl has returned after sending its callback task
C21_Witness ==
  /\ pc["Q"] = "ack"
  /\ "callback" \in fx["Q"]
  /\ [callback |-> task.callback, url |-> task.currentUrl] \in BagToSet(callbackQueue)

\* ------------------------------------------------------------------ C22

\* C22: for every CallbackTask the actor emitted, the callbacks consumer
\* POSTs to the task's callback the artifact stored for the task's URL: when
\* the artifact exists, the body of the request is that artifact, never an
\* empty or undefined one.
C22_ArtifactPosted ==
  [][posted' # posted =>
       LET body == batch[bi].body
       IN  truthy(cache[body.url]) =>
             posted' = posted (+)
               SetToBag({[callback |-> body.callback, body |-> cache[body.url]]})]_vars

\* ------------------------------------------------------------------ C23

\* A step in which the POST of the callback task being processed fails
CallbackPostFails == pc["Q"] = "post" /\ failures' > failures

\* C23: when the POST of a callback task fails, its retries exhausted, the
\* task is dropped: the message does not return to the callbacks queue, and
\* the handler goes on to deliver the remaining messages of the batch.
C23_FailedDeliveryDropped ==
  [][CallbackPostFails =>
       /\ callbackQueue' = callbackQueue
       /\ bi < Len(batch) => pc'["Q"] # "idle" /\ batch' = batch]_vars

\* ------------------------------------------------------------------ C24

\* The task has no inline payload and the cache has no entry for its URL
MissingArtifact(body) ==
  /\ "markdown" \notin DOMAIN body
  /\ cache[body.url] = NoEntry

\* C24: a CallbackTask whose artifact is missing is dropped by the callbacks
\* consumer: no POST is made to its callback, and the message does not
\* return to the queue.
C24_MissingArtifactDropped ==
  [][pc["Q"] = "post" /\ pc'["Q"] # "post" /\ MissingArtifact(batch[bi].body) =>
       /\ posted' = posted
       /\ callbackQueue' = callbackQueue]_vars

\* ---------------------------------------------------------------- C25

\* The seed a request asks for, field by field
SeedOf(r) ==
  [ currentUrl   |-> r.url,
    originalUrl  |-> r.url,
    currentDepth |-> 0,
    maxDepth     |-> r.depth,
    limit        |-> r.limit,
    callback     |-> r.callback,
    detailed     |-> r.detailed ]

InTask(p) == pc[p] \notin OutsideTask

\* C26: an actor instance processes at most one task at a time: with queue
\* batches and /scrape requests all routed to the actor named "browser", at
\* most one Browser.crawl or Browser.scrape invocation is between its entry
\* and its exit.
C26_OneTaskAtATime == Cardinality({p \in Procs : InTask(p)}) <= 1

\* ---------------------------------------------------------------- C27

\* The renderers the actor has launched that are still open: the one
\* this.browser refers to, and those only an invocation still refers to
LiveRenderers ==
  (IF browser = "open" THEN 1 ELSE 0)
    + Cardinality({p \in Procs : handle[p] = "orphan"})

\* C27: an actor owns at most one live renderer: no launch succeeds while
\* another renderer the actor launched is still open, so no open renderer
\* is left without the actor's reference to it.
C27_OneLiveRenderer ==
  /\ LiveRenderers <= 1
  /\ \A p \in Procs : handle[p] # "orphan"

\* ---------------------------------------------------------------- C28

\* The task the queue handler is processing has sent its children
FannedOut == "extractLinks" \in fx["Q"]

\* A step in which that task fails: the error starts unwinding, or leaves
\* the handler
FailsAfterFanOut ==
  /\ FannedOut
  /\ err'["Q"] # "none" \/ handlerErr' # "none"

\* C28: no fan-out rollback: when Browser.crawl fails after the fan-out step,
\* the child tasks it has sent stay in the task queue and the cache is left
\* as it was; the failed task goes back to the queue, and every delivery of
\* it sends its children again, whatever the queue holds already.
C28_NoFanOutRollback ==
  [][/\ FailsAfterFanOut =>
          /\ taskQueue \sqsubseteq taskQueue'
          /\ cache' = cache
          /\ handlerErr' # "none" =>
               CopiesIn(batch[bi], taskQueue') > CopiesIn(batch[bi], taskQueue)
     /\ ~FannedOut /\ "extractLinks" \in fx'["Q"] =>
          taskQueue' = taskQueue (+) sendLinks(task, links', 1)]_vars

\* A seed failed after its fan-out and was delivered again: its child is in
\* the task queue twice
C28_Witness ==
  /\ failures = 1
  /\ FannedOut
  /\ task.currentDepth = 0
  /\ \E m \in BagToSet(taskQueue) :
       /\ m.body.currentDepth = 1
       /\ CopiesIn(m, taskQueue) >= 2

\* ---------------------------------------------------------------- C29

\* C29: the idle timer never closes the renderer while a task is in flight:
\* while a Browser.crawl or Browser.scrape invocation is between its entry
\* and its exit, the renderer it uses is open, however long its navigation
\* lasts and however often an alarm armed by an earlier task fires.
C29_NoTeardownInFlight == \A p \in Procs : InTask(p) => handle[p] # "closed"

\* ---------------------------------------------------------------- C30

\* C30: no renderer is held without a teardown timer: whenever the actor
\* holds a live renderer and no task is in flight, an alarm is pending,
\* however the last task ended.
C30_RendererHasTimer ==
  (browser = "open" /\ \A p \in Procs : ~InTask(p)) => alarmSet

\* ---------------------------------------------------------------- C31

\* The handler is at the acknowledgement of the last message of a batch of
\* a queue it has a branch for: every task of the batch has succeeded
LastAck ==
  /\ pc["Q"] \in {"ack", "posted"}
  /\ bi = Len(batch)
  /\ consumerOf(queue) # "unknown"

\* C31: for a batch of a recognized queue in which every message is
\* processed successfully, the queue handler acknowledges every message and
\* returns normally: the invocation ends without an error and no message of
\* the batch goes back to its queue.
C31_SuccessfulBatchReturns ==
  [][LastAck /\ pc'["Q"] = "idle" =>
       /\ acked \cup {bi} = 1..Len(batch)
       /\ handlerErr' = "none"
       /\ taskQueue' = taskQueue
       /\ callbackQueue' = callbackQueue]_vars

\* ---------------------------------------------------------------- C32

\* The sends issued by the crawl of the message being processed that have
\* not put their message in the task queue
UnsettledSends == {c \in BagToSet(sends) : c.from = task}

\* C32: a frontier message is acknowledged only after every child-task send
\* issued by its Browser.crawl invocation has completed successfully: at the
\* acknowledgement no send of its crawl is pending or has failed.
C32_AckAfterSends ==
  [][pc["Q"] = "ack" /\ pc'["Q"] # "ack" => UnsettledSends = {}]_vars

====
